---------------------------- MODULE Spec2Model ----------------------------
(***************************************************************************)
(* wild-yak: the context stack of a session, the two-phase hook dispatch   *)
(* and the handler returned by init(), modelled from src/src/wild-yak.js.  *)
(*                                                                         *)
(* User code (topic init/afterInit, hook handlers, continuations) is the   *)
(* environment: it is modelled by nondeterministic choice of what it calls *)
(* and what it returns or throws.  The code compares context objects with  *)
(* !==.  A context that is on the stack is referred to by its position (a  *)
(* stack changes at its top only, so a context keeps its position for as   *)
(* long as it is on the stack); StaleCtx refers to a context object that   *)
(* has been removed from the stack, GlobalCtxId to the globalContext       *)
(* object of the invocation.                                               *)
(***************************************************************************)
EXTENDS Integers, Sequences, FiniteSets, TLC

VARIABLES
  allTopics,     \* the registry passed to init()
  strategy,      \* options.messageOptions.strategy
  store,         \* the session store behind libSession (one session id)
  pc,            \* position of the handler invocation
  yakSession,    \* the in-memory session of the invocation: contexts, virgin
  messages,      \* the batch of raw messages still to be looked at
  message,       \* the normalized message given to processMessage
  context,       \* processMessage's `context` (id; NoCtx when undefined)
  phase,         \* "local" or "global": which hook loop is running
  hookIdx,       \* index of the next hook of the running loop
  handled,       \* processMessage's `handled`
  handlerResult, \* processMessage's `handlerResult`
  results,       \* the handler invocation's `results`
  stale,         \* user code may hold a context that was removed from the stack
  nOps,          \* API calls made by user code so far
  call,          \* the last API call of the running user code and its outcome
  error,         \* the error the invocation failed with ("" when none)
  log,           \* hook parses and handlers invoked by this processMessage call
  loaded,        \* what libSession.get gave the running invocation
  saves,         \* libSession.save calls made by the running invocation
  returned,      \* what the invocation's promise resolved with
  nBatch,        \* length of the batch the invocation was called with
  nProc,         \* processMessage calls made by the running invocation
  formatted,     \* positions in the batch given to parseIncomingMessage
  pending,       \* an enterTopic call of the handler suspended in newTopic.init
  racers,        \* two invocations for one session id, run with no serialization
  lastSaver      \* the racer whose libSession.save came last (0: none yet)

vars == <<allTopics, strategy, store, pc, yakSession, messages, message,
          context, phase, hookIdx, handled, handlerResult, results,
          stale, nOps, call, error, log,
          loaded, saves, returned, nBatch, nProc, formatted, pending,
          racers, lastSaver>>

-----------------------------------------------------------------------------
(* Bounds of the model *)

MaxDepth == 2   \* contexts on the stack
MaxOps   == 2   \* API calls user code makes during the life of the session
MaxBatch == 2   \* raw messages in one batch
MaxRuns  == 2   \* invocations each of the two racing callers makes
MaxRaceOps == 1 \* stack operations a racing invocation makes

-----------------------------------------------------------------------------
(* Values *)

NoCtx       == -1     \* `undefined` where a context is expected
GlobalCtxId == 0      \* the per-invocation globalContext object
StaleCtx    == -2     \* a context object that is no longer on the stack

\* JavaScript values a handler may return: a scalar or an array of scalars.
Scalar(s) == [kind |-> "scalar", s |-> s, a |-> <<>>]
Array(a)  == [kind |-> "array",  s |-> "", a |-> a]
Undefined == Scalar("undefined")

FalsyScalars == {"undefined", "null", "false", "0", "emptystring"}
JsValues == {Undefined, Scalar("0"), Scalar("hi"), Array(<<>>), Array(<<"hi", "yo">>)}

\* JavaScript truthiness: every array (also the empty one) is truthy.
Truthy(v) == v.kind = "array" \/ v.s \notin FalsyScalars

\* [].concat(v): an array argument contributes its elements, any other value itself.
Concat(v) == IF v.kind = "array" THEN v.a ELSE <<v.s>>

Last(s) == s[Len(s)]

-----------------------------------------------------------------------------
(* Topic/Hook definition builders *)

\* defTopic: isRoot defaults to false, hooks to [], afterInit stays unset.
defTopic(name, options) ==
  [name      |-> name,
   isRoot    |-> IF "isRoot" \in DOMAIN options THEN options.isRoot ELSE FALSE,
   hooks     |-> IF "hooks" \in DOMAIN options THEN options.hooks ELSE <<>>,
   afterInit |-> IF "afterInit" \in DOMAIN options THEN options.afterInit ELSE FALSE]

\* defPattern: a hook whose parse tries the patterns in order.  A pattern is
\* modelled by the word it looks for in the message text.
defPattern(name, patterns) == [name |-> name, patterns |-> patterns]

\* The words (raw payloads) of the model.
Words == {"hello", "gab", "none"}

\* Normalized messages: the text is a sequence of words.
NoMessage == [text |-> <<>>]

RECURSIVE FirstMatch(_, _, _)
FirstMatch(patterns, text, i) ==
  IF i > Len(patterns) THEN 0
  ELSE IF \E k \in 1..Len(text) : text[k] = patterns[i] THEN i
  ELSE FirstMatch(patterns, text, i + 1)

\* hook.parse of a pattern hook: the index of the first pattern that matches,
\* 0 standing for `undefined` (no pattern matches).
HookParse(hook, msg) == FirstMatch(hook.patterns, msg.text, 1)

\* The `undefined` that findTopic yields when no topic has the name.
UndefinedTopic == [name |-> "undefined", isRoot |-> FALSE, hooks |-> <<>>, afterInit |-> FALSE]

\* findTopic: the first topic of the list with the name, else undefined.
findTopic(name, topics) ==
  LET hits == SelectSeq(topics, LAMBDA t : t.name = name)
  IN IF hits = <<>> THEN UndefinedTopic ELSE hits[1]

GlobalTopic ==
  defTopic("global", [hooks |-> <<defPattern("a", <<"gab", "hello">>),
                                  defPattern("b", <<"gab">>)>>])
MainTopic ==
  defTopic("main", [isRoot |-> TRUE, afterInit |-> TRUE,
                    hooks |-> <<defPattern("greet", <<"hello">>)>>])
SubTopic ==
  defTopic("sub", [afterInit |-> TRUE,
                   hooks |-> <<defPattern("s1", <<"sub">>),
                               defPattern("s2", <<"gab", "hello">>)>>])
PlainTopic == defTopic("sub", [hooks |-> <<defPattern("s2", <<"hello">>)>>])

\* The registries init() is called with.
Registries ==
  { <<MainTopic, GlobalTopic, SubTopic>>,   \* global and main registered
    <<MainTopic, SubTopic>>,                \* no topic named "global"
    <<GlobalTopic, PlainTopic>> }           \* no topic named "main"

Strategies == {"last", "first", "single", "merge", "custom", "bogus"}

\* init(): globalTopic and topics (every topic but "global").
globalTopic == findTopic("global", allTopics)
topics == SelectSeq(allTopics, LAMBDA t : t.name # "global")

-----------------------------------------------------------------------------
(* Context Stack Manager *)

Cbs       == {"nocb", "cb"}
HookLists == {<<>>, <<"a">>}

\* activeContext: the last element of the stack (its position); NoCtx when
\* the stack is empty.
activeContext(ys) ==
  IF ys.contexts = <<>> THEN NoCtx ELSE Len(ys.contexts)

\* The context objects user code can name: those on the stack, the global
\* context, and a removed context once one has been removed.
Refs(ys, st) ==
  (1..Len(ys.contexts)) \cup {GlobalCtxId} \cup (IF st THEN {StaleCtx} ELSE {})

Event(ev, ph, name, ctx) == [ev |-> ev, ph |-> ph, name |-> name, ctx |-> ctx]

\* Mutant of EnterRefused: the check is missing.
EnterNeverRefused(ys, caller) == FALSE

\* Lines 98-102, the discipline check of enterTopic: true when the call throws.
EnterRefused(ys, caller) ==
  LET contextOnStack == activeContext(ys)
  IN contextOnStack # NoCtx /\ caller # contextOnStack

\* Mutants of Install: every topic resets the stack; every topic is pushed;
\* the context is not put on the stack.
InstallAlwaysResets(ys, newTopic, newContext) == <<newContext>>
InstallAlwaysPushes(ys, newTopic, newContext) == Append(ys.contexts, newContext)
InstallNothing(ys, newTopic, newContext) == ys.contexts

\* Lines 114-118: the stack with newContext installed.
Install(ys, newTopic, newContext) ==
  IF newTopic.isRoot THEN <<newContext>> ELSE Append(ys.contexts, newContext)

\* Where the context of the state given to enterTopic is, at the moment the
\* new context is installed: the stack is empty, it is the top, or neither.
\* (A record of the call kept with the context; the code keeps no such field.)
EnteredFrom(ys, caller) ==
  IF ys.contexts = <<>> THEN "empty"
  ELSE IF caller = Len(ys.contexts) THEN "top"
  ELSE "other"

\* Lines 104-112: the context enterTopic builds.
NewContext(topicName, newTopic, data, cb, from) ==
  [data |-> data, topic |-> newTopic.name, parentTopic |-> topicName,
   activeHooks |-> <<>>, disabledHooks |-> <<>>, cb |-> cb, enteredFrom |-> from]

\* Lines 104-122, enterTopic after its check: init is awaited, the context is
\* built and installed on the stack as it is then, afterInit is awaited.
\* initOk / afterOk tell whether newTopic.init and newTopic.afterInit return
\* or throw; init returns its argument as the context data.
EnterAfterCheck(ys, topicName, caller, newTopic, args, cb, initOk, afterOk) ==
  LET newContext == NewContext(topicName, newTopic, args, cb, EnteredFrom(ys, caller))
      installed  == Install(ys, newTopic, newContext)
      initEv     == Event("init", "", newTopic.name, NoCtx)
      afterEv    == Event("afterInit", "", newTopic.name, Len(installed))
  IN IF ~initOk
       THEN [contexts |-> ys.contexts, status |-> "initError", events |-> <<initEv>>]
     ELSE IF newTopic.afterInit
       THEN [contexts |-> installed,
             status   |-> IF afterOk THEN "ok" ELSE "afterInitError",
             events   |-> <<initEv, afterEv>>]
     ELSE [contexts |-> installed, status |-> "ok", events |-> <<initEv>>]

\* enterTopic(topic, state, newTopic, args, cb), awaited by its caller.
\* Yields the stack, the outcome and the callbacks invoked.
enterTopic(ys, topicName, caller, newTopic, args, cb, initOk, afterOk) ==
  IF EnterRefused(ys, caller)
    THEN [contexts |-> ys.contexts, status |-> "discipline", events |-> <<>>]
    ELSE EnterAfterCheck(ys, topicName, caller, newTopic, args, cb, initOk, afterOk)

\* Mutant of ExitRefused: any context that is on the stack may exit.
ExitRefusedOffStackOnly(ys, caller) == caller \notin 1..Len(ys.contexts)

\* Line 133, the discipline check of exitTopic: true when the call throws.
ExitRefused(ys, caller) == caller # activeContext(ys)

\* Mutants of Pop: shift() in place of pop(); the top is read, not removed.
PopsBottom(ys) == Tail(ys.contexts)
PopKeeps(ys) == ys.contexts

\* Line 137: the stack after the pop.
Pop(ys) == SubSeq(ys.contexts, 1, Len(ys.contexts) - 1)

\* Mutant of ParentContext: the context that has just been popped.
ParentContextIsExited(before, popped) == Len(before.contexts)

\* Line 141: the context handed to the continuation, activeContext after the pop.
ParentContext(before, popped) == activeContext(popped)

\* exitTopic(topic, state, args).  cbRet is what the continuation returns,
\* cbOk whether it returns or throws.  The event of the continuation carries
\* the arguments it is called with in its `ph` field.
exitTopic(ys, caller, args, cbRet, cbOk) ==
  LET lastContext   == Last(ys.contexts)
      popped        == [ys EXCEPT !.contexts = Pop(ys)]
      parentContext == ParentContext(ys, popped)
  IN IF ExitRefused(ys, caller)
       THEN [contexts |-> ys.contexts, status |-> "discipline", events |-> <<>>,
             ret |-> Undefined]
     ELSE IF lastContext.cb # "nocb"
       THEN [contexts |-> popped.contexts,
             status   |-> IF cbOk THEN "ok" ELSE "cbError",
             events   |-> <<Event("cb", args, lastContext.cb, parentContext)>>,
             ret      |-> IF cbOk THEN cbRet ELSE Undefined]
     ELSE [contexts |-> popped.contexts, status |-> "ok", events |-> <<>>,
           ret |-> Undefined]

\* state.context[field] = list, for the context object `ref`; an object that
\* is not on the stack is changed too, which leaves the stack as it is.
SetField(ys, ref, field, list) ==
  [i \in 1..Len(ys.contexts) |->
     IF i = ref THEN [ys.contexts[i] EXCEPT ![field] = list] ELSE ys.contexts[i]]

\* Lines 147-149.
disableHooksExcept(ys, ref, list) == SetField(ys, ref, "activeHooks", list)

\* Mutant of disableHooks: setting the deny-list clears the allow-list.
DisableHooksClearsActive(ys, ref, list) ==
  [i \in 1..Len(ys.contexts) |->
     IF i = ref THEN [ys.contexts[i] EXCEPT !.disabledHooks = list, !.activeHooks = <<>>]
     ELSE ys.contexts[i]]

\* Lines 152-154.
disableHooks(ys, ref, list) == SetField(ys, ref, "disabledHooks", list)

-----------------------------------------------------------------------------
(* External collaborators: the session store and the channel formatters *)

NoSession == [exists |-> FALSE, contexts |-> <<>>, virgin |-> TRUE]

\* libSession.get: the session last saved under the id, or nothing.
libSessionGet(st) == st

\* libSession.save: the store holds the session's stack and virgin flag.
libSessionSave(ys) ==
  [exists |-> TRUE, contexts |-> ys.contexts, virgin |-> ys.virgin]

\* formatter.parseIncomingMessage: a raw payload becomes a message with its text.
parseIncomingMessage(raw) == [text |-> <<raw>>]

\* formatter.mergeIncomingMessages: one message carrying the text of all payloads.
mergeIncomingMessages(raws) == [text |-> raws]

Batches == UNION {[1..n -> Words] : n \in 1..MaxBatch}

-----------------------------------------------------------------------------
(* Initial state: init() has been called, no message handled yet *)

\* The promise of the invocation has not resolved.
NotReturned == <<"pending">>

NoCall == [op |-> "none", caller |-> NoCtx, topic |-> "", status |-> "",
           before |-> <<>>, ret |-> Undefined, events |-> <<>>,
           args |-> "", cbRet |-> Undefined]

\* The two callers of the handler, and a caller between two invocations.
Racers == {1, 2}
IdleRacer(runs) ==
  [pc |-> "idle", ys |-> [contexts |-> <<>>, virgin |-> TRUE], loaded |-> NoSession,
   overtaken |-> FALSE, ops |-> 0, runs |-> runs]

\* No enterTopic call is suspended.
NoPending == [caller |-> NoCtx, topic |-> "", newTopic |-> "", cb |-> ""]

\* The (registry, strategy) pairs init() is called with: every registry with
\* the default strategy, an unknown strategy on the full registry, and the
\* other strategies on the registry without "main".
Configs ==
  {<<r, "last">> : r \in Registries}
    \cup {<<<<MainTopic, GlobalTopic, SubTopic>>, "bogus">>}
    \cup {<<<<GlobalTopic, PlainTopic>>, s>> : s \in Strategies \ {"last", "bogus"}}

Init ==
  /\ \E c \in Configs : allTopics = c[1] /\ strategy = c[2]
  /\ store = NoSession
  /\ pc = "idle"
  /\ yakSession = [contexts |-> <<>>, virgin |-> TRUE]
  /\ messages = <<>>
  /\ message = NoMessage
  /\ context = NoCtx
  /\ phase = "local"
  /\ hookIdx = 1
  /\ handled = FALSE
  /\ handlerResult = Undefined
  /\ results = <<>>
  /\ stale = FALSE
  /\ nOps = 0
  /\ call = NoCall
  /\ error = ""
  /\ log = <<>>
  /\ loaded = NoSession
  /\ saves = 0
  /\ returned = NotReturned
  /\ nBatch = 0
  /\ nProc = 0
  /\ formatted = <<>>
  /\ pending = NoPending
  /\ racers = [i \in Racers |-> IdleRacer(0)]
  /\ lastSaver = 0

race == <<racers, lastSaver>>
config == <<allTopics, strategy>>
invocation == <<loaded, saves, returned, nBatch, nProc, formatted>>
dispatch == <<message, context, phase, hookIdx, handled, handlerResult>>

\* processMessage has returned or thrown: its locals are gone, and so are
\* the references user code held.
LocalsGone ==
  /\ message' = NoMessage
  /\ context' = NoCtx
  /\ phase' = "local"
  /\ hookIdx' = 1
  /\ log' = <<>>
  /\ call' = NoCall
  /\ stale' = FALSE

DispatchOver ==
  /\ LocalsGone
  /\ handled' = FALSE
  /\ handlerResult' = Undefined

-----------------------------------------------------------------------------
(* The handler returned by init(): load, bootstrap, select, dispatch, save *)

\* Mutant of LoadedSession: every invocation starts a new session.
LoadedSessionAlwaysNew(savedSession) == [contexts |-> <<>>, virgin |-> TRUE]

\* Lines 251-252: the saved session if there is one, else a virgin session
\* with an empty stack.
LoadedSession(savedSession) ==
  IF savedSession.exists
    THEN [contexts |-> savedSession.contexts, virgin |-> savedSession.virgin]
    ELSE [contexts |-> <<>>, virgin |-> TRUE]

\* Lines 248-254: the session is loaded, or created virgin with an empty stack.
Load(batch) ==
  /\ pc = "idle"
  /\ yakSession' = LoadedSession(libSessionGet(store))
  /\ loaded' = libSessionGet(store)
  /\ saves' = 0
  /\ returned' = NotReturned
  /\ nBatch' = Len(batch)
  /\ nProc' = 0
  /\ formatted' = <<>>
  /\ messages' = batch
  /\ message' = NoMessage
  /\ context' = NoCtx
  /\ phase' = "local"
  /\ hookIdx' = 1
  /\ handled' = FALSE
  /\ handlerResult' = Undefined
  /\ results' = <<>>
  /\ stale' = FALSE
  /\ call' = NoCall
  /\ log' = <<>>
  /\ pc' = "bootstrap"
  /\ UNCHANGED <<config, race, pending, store, nOps, error>>

\* Mutant of ClearVirgin: the flag is left as it is.
VirginKept(ys) == ys

\* Line 257: the virgin flag is cleared.
ClearVirgin(ys) == [ys EXCEPT !.virgin = FALSE]

\* Lines 256-267 with a virgin session and "main" registered: main is entered
\* from the global context, with undefined arguments and no continuation.
BootstrapMain(initOk, afterOk) ==
  /\ pc = "bootstrap"
  /\ yakSession.virgin
  /\ LET mainTopic == findTopic("main", topics)
         r == enterTopic(yakSession, globalTopic.name, GlobalCtxId, mainTopic,
                         "undefined", "nocb", initOk, afterOk)
     IN /\ mainTopic # UndefinedTopic
        /\ yakSession' = [ClearVirgin(yakSession) EXCEPT !.contexts = r.contexts]
        /\ call' = [op |-> "enterTopic", caller |-> GlobalCtxId, topic |-> mainTopic.name,
                    status |-> r.status, before |-> yakSession.contexts,
                    ret |-> Undefined, events |-> r.events,
                    args |-> "", cbRet |-> Undefined]
        /\ pc' = IF r.status = "ok" THEN "select" ELSE "failed"
        /\ error' = IF r.status = "ok" THEN "" ELSE r.status
  /\ UNCHANGED <<config, race, pending, invocation, store, messages, dispatch, results, stale, nOps, log>>

\* Lines 256-267 otherwise: the virgin flag is cleared, nothing is entered.
BootstrapSkip ==
  /\ pc = "bootstrap"
  /\ yakSession.virgin => findTopic("main", topics) = UndefinedTopic
  /\ yakSession' = IF yakSession.virgin THEN ClearVirgin(yakSession) ELSE yakSession
  /\ pc' = "select"
  /\ UNCHANGED <<config, race, pending, invocation, store, messages, dispatch, results, stale, nOps, call, error, log>>

\* The first lines of processMessage (176-182) on message m.
StartProcessMessage(m) ==
  /\ message' = m
  /\ context' = activeContext(yakSession)
  /\ handled' = FALSE
  /\ handlerResult' = Undefined
  /\ phase' = "local"
  /\ hookIdx' = 1
  /\ log' = <<>>
  /\ call' = NoCall
  /\ pc' = "hooks"
  /\ nProc' = nProc + 1

\* Mutant of StrategyCase: an unrecognized strategy is handled as "last".
StrategyCaseDefaultsToLast(s) ==
  IF s \in {"last", "first", "single", "merge", "custom"} THEN s ELSE "last"

\* Lines 271-315: the case of the switch a strategy selects.
StrategyCase(s) ==
  IF s \in {"last", "first", "single", "merge", "custom"} THEN s ELSE "default"

\* Mutant of SliceLast: the first element of the batch.
SliceFirst(msgs) == msgs[1]

\* Line 273, messages.slice(-1)[0]: the final element of the batch.
SliceLast(msgs) == msgs[Len(msgs)]

\* Lines 271-317: the switch on messageOptions.strategy.
Select ==
  /\ pc = "select"
  /\ \/ /\ StrategyCase(strategy) = "last"
        /\ StartProcessMessage(parseIncomingMessage(SliceLast(messages)))
        /\ formatted' = <<Len(messages)>>
        /\ messages' = <<>>
     \/ /\ StrategyCase(strategy) = "first"
        /\ StartProcessMessage(parseIncomingMessage(messages[1]))
        /\ formatted' = <<1>>
        /\ messages' = <<>>
     \/ /\ StrategyCase(strategy) = "single"
        /\ StartProcessMessage(parseIncomingMessage(Head(messages)))
        /\ formatted' = Append(formatted, nBatch - Len(messages) + 1)
        /\ messages' = Tail(messages)
     \/ /\ StrategyCase(strategy) = "merge"
        /\ StartProcessMessage(mergeIncomingMessages(messages))
        /\ formatted' = formatted
        /\ messages' = <<>>
     \/ /\ StrategyCase(strategy) = "custom"
        /\ \E k \in 1..Len(messages) :
              StartProcessMessage(parseIncomingMessage(messages[k]))
        /\ formatted' = [i \in 1..Len(messages) |-> i]
        /\ messages' = <<>>
  /\ UNCHANGED <<config, race, pending, loaded, saves, returned, nBatch, store, yakSession, results,
                 stale, nOps, error>>

\* Line 316: the default case throws.
UnknownStrategy ==
  /\ pc = "select"
  /\ StrategyCase(strategy) = "default"
  /\ pc' = "failed"
  /\ error' = "unknown strategy"
  /\ UNCHANGED <<config, race, pending, invocation, store, yakSession, messages, dispatch, results, stale,
                 nOps, call, log>>

-----------------------------------------------------------------------------
(* Hook Dispatcher: runHook and the two loops of processMessage *)

Contains(list, x) == \E i \in 1..Len(list) : list[i] = x

\* Mutant of Eligible: disabledHooks is consulted whatever activeHooks holds.
EligibleDenyFirst(ys, ctx, hookName) ==
  \/ ctx = NoCtx
  \/ /\ ~Contains(ys.contexts[ctx].disabledHooks, hookName)
     /\ \/ Len(ys.contexts[ctx].activeHooks) = 0
        \/ Contains(ys.contexts[ctx].activeHooks, hookName)

\* Lines 204-207: may the global hook run, given processMessage's `context`?
Eligible(ys, ctx, hookName) ==
  \/ ctx = NoCtx
  \/ Contains(ys.contexts[ctx].activeHooks, hookName)
  \/ /\ Len(ys.contexts[ctx].activeHooks) = 0
     /\ \/ Len(ys.contexts[ctx].disabledHooks) = 0
        \/ ~Contains(ys.contexts[ctx].disabledHooks, hookName)

\* runHook (157-166): parse is called; a defined parse result hands the
\* message to the hook's handler, an undefined one moves on to the next hook.
runHook(hook, ctx) ==
  IF HookParse(hook, message) # 0
    THEN /\ log' = log \o <<Event("parse", phase, hook.name, ctx),
                            Event("handler", phase, hook.name, ctx)>>
         /\ pc' = "handler"
         /\ hookIdx' = hookIdx
    ELSE /\ log' = Append(log, Event("parse", phase, hook.name, ctx))
         /\ pc' = pc
         /\ hookIdx' = hookIdx + 1

\* Mutant of HookAt: the hooks are gone through from the last to the first.
HookAtReversed(hooks, i) == hooks[Len(hooks) + 1 - i]

\* Lines 187 and 203, `for (let hook of ...hooks)`: the i-th hook looked at.
HookAt(hooks, i) == hooks[i]

\* Line 184: the active context's topic, resolved by name in the registry.
currentTopic == findTopic(yakSession.contexts[context].topic, topics)

\* Lines 187-192: the next hook of the active context's topic.
LocalHook ==
  /\ pc = "hooks" /\ phase = "local"
  /\ context # NoCtx
  /\ currentTopic # UndefinedTopic
  /\ hookIdx <= Len(currentTopic.hooks)
  /\ runHook(HookAt(currentTopic.hooks, hookIdx), context)
  /\ UNCHANGED <<config, race, pending, invocation, store, yakSession, messages, message, context, phase,
                 handled, handlerResult, results, stale, nOps, call, error>>

\* Mutant of GlobalLoopRuns: `handled` is not looked at.
GlobalLoopAlwaysRuns(h) == TRUE

\* Line 202, `!handled`: does the global loop run?
GlobalLoopRuns(h) == ~h

\* Line 202 with nothing handled: the global loop starts.
LocalEnd ==
  /\ pc = "hooks" /\ phase = "local"
  /\ context # NoCtx => /\ currentTopic # UndefinedTopic
                        /\ hookIdx > Len(currentTopic.hooks)
  /\ GlobalLoopRuns(handled)
  /\ globalTopic # UndefinedTopic
  /\ phase' = "global"
  /\ hookIdx' = 1
  /\ UNCHANGED <<config, race, pending, invocation, store, pc, yakSession, messages, message, context,
                 handled, handlerResult, results, stale, nOps, call, error, log>>

\* Line 202 when no topic is named "global": globalTopic is undefined and
\* reading globalTopic.hooks throws a TypeError.
UndefinedTopicError ==
  /\ pc = "hooks" /\ phase = "local"
  /\ context # NoCtx => /\ currentTopic # UndefinedTopic
                        /\ hookIdx > Len(currentTopic.hooks)
  /\ GlobalLoopRuns(handled)
  /\ globalTopic = UndefinedTopic
  /\ pc' = "failed"
  /\ error' = "TypeError"
  /\ DispatchOver
  /\ UNCHANGED <<config, race, pending, invocation, store, yakSession, messages, results, nOps>>

\* Lines 203-213: the next global hook, run if eligible, else passed over.
GlobalHook ==
  /\ pc = "hooks" /\ phase = "global"
  /\ hookIdx <= Len(globalTopic.hooks)
  /\ IF Eligible(yakSession, context, HookAt(globalTopic.hooks, hookIdx).name)
       THEN runHook(HookAt(globalTopic.hooks, hookIdx),
                    IF context # NoCtx THEN context ELSE GlobalCtxId)
       ELSE /\ hookIdx' = hookIdx + 1
            /\ UNCHANGED <<pc, log>>
  /\ UNCHANGED <<config, race, pending, invocation, store, yakSession, messages, message, context, phase,
                 handled, handlerResult, results, stale, nOps, call, error>>

\* The global loop ends with no hook matched.
GlobalEnd ==
  /\ pc = "hooks" /\ phase = "global"
  /\ hookIdx > Len(globalTopic.hooks)
  /\ pc' = "return"
  /\ UNCHANGED <<config, race, pending, invocation, store, yakSession, messages, dispatch, results, stale,
                 nOps, call, error, log>>

\* Mutant of Normalize: the result is not tested before it is wrapped.
NormalizeUntested(v) == Concat(v)

\* Line 216: the handler result as a sequence.
Normalize(v) == IF Truthy(v) THEN Concat(v) ELSE <<>>

\* Line 216 and the end of the strategy's case.
Return ==
  /\ pc = "return"
  /\ results' = Normalize(handlerResult)
  /\ pc' = IF strategy = "single" /\ messages # <<>> THEN "select" ELSE "save"
  /\ LocalsGone
  /\ UNCHANGED <<config, race, pending, invocation, store, yakSession, messages, handled, handlerResult, nOps,
                 error>>

\* Lines 318-319: the session is saved and the results returned.
Save ==
  /\ pc = "save"
  /\ store' = libSessionSave(yakSession)
  /\ saves' = saves + 1
  /\ returned' = results
  /\ pc' = "done"
  /\ handled' = FALSE
  /\ handlerResult' = Undefined
  /\ UNCHANGED <<config, race, pending, loaded, nBatch, nProc, formatted, yakSession, messages, message, context, phase, hookIdx,
                 results, stale, nOps, call, error, log>>

-----------------------------------------------------------------------------
(* User code: what a hook handler does with the state it is given *)

\* The topic argument user code passes to enterTopic: the topic it runs in.
CallerTopic(ys) ==
  IF ys.contexts = <<>> THEN globalTopic.name ELSE Last(ys.contexts).topic

TopicSet == {topics[i] : i \in 1..Len(topics)}

\* The arguments user code gives to exitTopic.
ResultArgs == {"res"}

\* The context a suspended enterTopic call was made from, after the stack
\* has gone from `before` to `after`: an object that has left the stack is
\* named StaleCtx.
Surviving(ref, before, after) ==
  IF ref \in 1..Len(before) /\ (ref > Len(after) \/ after[ref] # before[ref])
    THEN StaleCtx ELSE ref

Rebased(pend, before, after) ==
  [pend EXCEPT !.caller = Surviving(pend.caller, before, after)]

\* The handler calls enterTopic and awaits it.
UserEnterTopic(caller, newTopic, cb, initOk, afterOk) ==
  /\ pc = "handler" /\ nOps < MaxOps
  /\ newTopic.isRoot \/ Len(yakSession.contexts) < MaxDepth
  /\ LET r == enterTopic(yakSession, CallerTopic(yakSession), caller, newTopic,
                         "arg", cb, initOk, afterOk)
     IN /\ yakSession' = [yakSession EXCEPT !.contexts = r.contexts]
        /\ stale' = (stale \/ (r.status \in {"ok", "afterInitError"}
                                 /\ newTopic.isRoot /\ yakSession.contexts # <<>>))
        /\ call' = [op |-> "enterTopic", caller |-> caller, topic |-> newTopic.name,
                    status |-> r.status, before |-> yakSession.contexts,
                    ret |-> Undefined, events |-> r.events,
                    args |-> "", cbRet |-> Undefined]
        /\ pending' = Rebased(pending, yakSession.contexts, r.contexts)
  /\ nOps' = nOps + 1
  /\ UNCHANGED <<config, race, invocation, store, pc, messages, dispatch, results, error, log>>

\* The handler calls exitTopic and awaits it.
UserExitTopic(caller, args, cbRet, cbOk) ==
  /\ pc = "handler" /\ nOps < MaxOps
  /\ LET r == exitTopic(yakSession, caller, args, cbRet, cbOk)
     IN /\ yakSession' = [yakSession EXCEPT !.contexts = r.contexts]
        /\ stale' = (stale \/ r.status # "discipline")
        /\ call' = [op |-> "exitTopic", caller |-> caller, topic |-> "",
                    status |-> r.status, before |-> yakSession.contexts,
                    ret |-> r.ret, events |-> r.events,
                    args |-> args, cbRet |-> cbRet]
        /\ pending' = Rebased(pending, yakSession.contexts, r.contexts)
  /\ nOps' = nOps + 1
  /\ UNCHANGED <<config, race, invocation, store, pc, messages, dispatch, results, error, log>>

UserDisableHooksExcept(ref, list) ==
  /\ pc = "handler" /\ nOps < MaxOps
  /\ yakSession' = [yakSession EXCEPT !.contexts = disableHooksExcept(yakSession, ref, list)]
  /\ call' = [op |-> "disableHooksExcept", caller |-> ref, topic |-> "",
              status |-> "ok", before |-> yakSession.contexts,
              ret |-> Undefined, events |-> <<>>,
              args |-> "", cbRet |-> Undefined]
  /\ nOps' = nOps + 1
  /\ UNCHANGED <<config, race, invocation, pending, store, pc, messages, dispatch, results,
                 stale, error, log>>

UserDisableHooks(ref, list) ==
  /\ pc = "handler" /\ nOps < MaxOps
  /\ yakSession' = [yakSession EXCEPT !.contexts = disableHooks(yakSession, ref, list)]
  /\ call' = [op |-> "disableHooks", caller |-> ref, topic |-> "",
              status |-> "ok", before |-> yakSession.contexts,
              ret |-> Undefined, events |-> <<>>,
              args |-> "", cbRet |-> Undefined]
  /\ nOps' = nOps + 1
  /\ UNCHANGED <<config, race, invocation, pending, store, pc, messages, dispatch, results,
                 stale, error, log>>

\* The handler calls enterTopic without awaiting it.  Lines 94-102 run at
\* once; the call passes its check and is suspended at line 105, in `await
\* newTopic.init(...)`, while the handler goes on.
UserEnterTopicUnawaited(caller, newTopic, cb) ==
  /\ pc = "handler" /\ nOps < MaxOps
  /\ pending = NoPending
  /\ newTopic.isRoot \/ Len(yakSession.contexts) < MaxDepth
  /\ ~EnterRefused(yakSession, caller)
  /\ pending' = [caller |-> caller, topic |-> CallerTopic(yakSession),
                 newTopic |-> newTopic.name, cb |-> cb]
  /\ call' = [op |-> "suspended", caller |-> caller, topic |-> newTopic.name,
              status |-> "", before |-> yakSession.contexts,
              ret |-> Undefined, events |-> <<>>,
              args |-> "", cbRet |-> Undefined]
  /\ nOps' = nOps + 1
  /\ UNCHANGED <<config, race, invocation, store, pc, yakSession, messages, dispatch,
                 results, stale, error, log>>

\* newTopic.init of the suspended call settles: the call resumes at line 104
\* and installs the context on the stack as it is now.
ResumeEnterTopic(initOk, afterOk) ==
  /\ pc = "handler"
  /\ pending # NoPending
  /\ LET newTopic == findTopic(pending.newTopic, topics)
         r == EnterAfterCheck(yakSession, pending.topic, pending.caller, newTopic,
                              "arg", pending.cb, initOk, afterOk)
     IN /\ yakSession' = [yakSession EXCEPT !.contexts = r.contexts]
        /\ stale' = (stale \/ (r.status \in {"ok", "afterInitError"}
                                 /\ newTopic.isRoot /\ yakSession.contexts # <<>>))
        /\ call' = [op |-> "resumed", caller |-> pending.caller, topic |-> newTopic.name,
                    status |-> r.status, before |-> yakSession.contexts,
                    ret |-> Undefined, events |-> r.events,
                    args |-> "", cbRet |-> Undefined]
  /\ pending' = NoPending
  /\ UNCHANGED <<config, race, invocation, store, pc, messages, dispatch, results, nOps,
                 error, log>>

\* The handler returns v: runHook yields [true, v] and the loop breaks
\* (lines 188-191, 208-211); after the local loop line 202 decides whether
\* the global loop runs.
HandlerReturn(v) ==
  /\ pc = "handler"
  /\ pending = NoPending
  /\ handled' = TRUE
  /\ handlerResult' = v
  /\ call' = NoCall
  /\ IF phase = "local" /\ GlobalLoopRuns(TRUE) /\ globalTopic # UndefinedTopic
       THEN pc' = "hooks" /\ phase' = "global" /\ hookIdx' = 1
       ELSE pc' = "return" /\ UNCHANGED <<phase, hookIdx>>
  /\ UNCHANGED <<config, race, pending, invocation, store, yakSession, messages, message, context,
                 results, stale, nOps, error, log>>

\* Mutant of HandlerThrow: the session is saved on the way out.
HandlerThrowSaves ==
  /\ pc = "handler"
  /\ pending = NoPending
  /\ pc' = "failed"
  /\ error' = IF call.status \in {"", "ok"} THEN "handler error" ELSE call.status
  /\ store' = libSessionSave(yakSession)
  /\ DispatchOver
  /\ UNCHANGED <<config, race, pending, invocation, yakSession, messages, results, nOps>>

\* The handler throws (its own error, or one of enterTopic / exitTopic it
\* did not catch): the invocation ends without saving.
HandlerThrow ==
  /\ pc = "handler"
  /\ pending = NoPending
  /\ pc' = "failed"
  /\ error' = IF call.status \in {"", "ok"} THEN "handler error" ELSE call.status
  /\ DispatchOver
  /\ UNCHANGED <<config, race, pending, invocation, store, yakSession, messages, results, nOps>>

\* The promise of the invocation has settled; the host may call the handler
\* again.
Settle ==
  /\ pc \in {"done", "failed"}
  /\ pc' = "idle"
  /\ yakSession' = [contexts |-> <<>>, virgin |-> TRUE]
  /\ messages' = <<>>
  /\ results' = <<>>
  /\ error' = ""
  /\ DispatchOver
  /\ loaded' = NoSession
  /\ saves' = 0
  /\ returned' = NotReturned
  /\ nBatch' = 0
  /\ nProc' = 0
  /\ formatted' = <<>>
  /\ UNCHANGED <<config, race, pending, store, nOps>>

-----------------------------------------------------------------------------

Next ==
  \/ \E batch \in Batches : Load(batch)
  \/ \E initOk, afterOk \in BOOLEAN : BootstrapMain(initOk, afterOk)
  \/ BootstrapSkip
  \/ Select
  \/ UnknownStrategy
  \/ LocalHook
  \/ LocalEnd
  \/ UndefinedTopicError
  \/ GlobalHook
  \/ GlobalEnd
  \/ Return
  \/ Save
  \/ Settle
  \/ \E caller \in Refs(yakSession, stale), newTopic \in TopicSet, cb \in Cbs,
        initOk, afterOk \in BOOLEAN :
        UserEnterTopic(caller, newTopic, cb, initOk, afterOk)
  \/ \E caller \in Refs(yakSession, stale), args \in ResultArgs,
        cbRet \in {Undefined, Scalar("hi")}, cbOk \in BOOLEAN :
        UserExitTopic(caller, args, cbRet, cbOk)
  \/ \E caller \in Refs(yakSession, stale), newTopic \in TopicSet, cb \in Cbs :
        UserEnterTopicUnawaited(caller, newTopic, cb)
  \/ \E initOk, afterOk \in BOOLEAN : ResumeEnterTopic(initOk, afterOk)
  \/ \E ref \in Refs(yakSession, stale), list \in HookLists :
        UserDisableHooksExcept(ref, list)
  \/ \E ref \in Refs(yakSession, stale), list \in HookLists :
        UserDisableHooks(ref, list)
  \/ \E v \in JsValues : HandlerReturn(v)
  \/ HandlerThrow

Spec == Init /\ [][Next]_vars

-----------------------------------------------------------------------------
(* Two invocations of the handler for one session id.  The handler awaits   *)
(* libSession.get, the topics' callbacks and libSession.save, and holds no  *)
(* lock, so the steps of two invocations interleave freely.  Each racer     *)
(* runs lines 248-267, some awaited stack operations of a hook handler, and *)
(* line 318.                                                                *)

handlerVars == <<allTopics, strategy, pc, yakSession, messages, message, context,
                 phase, hookIdx, handled, handlerResult, results, stale, nOps,
                 call, error, log, loaded, saves, returned, nBatch, nProc,
                 formatted, pending>>

\* Lines 248-254 for racer i.  Nothing in lines 244-250 keeps an invocation
\* from loading the session while another one is between its load and its
\* save: the guard does not look at the other racer.
RaceLoad(i) ==
  /\ racers[i].pc = "idle" /\ racers[i].runs < MaxRuns
  /\ racers' = [racers EXCEPT ![i] =
        [pc |-> "loaded", ys |-> LoadedSession(libSessionGet(store)),
         loaded |-> libSessionGet(store), overtaken |-> FALSE, ops |-> 0,
         runs |-> racers[i].runs + 1]]
  /\ UNCHANGED <<handlerVars, store, lastSaver>>

\* Lines 256-267 for racer i: a virgin session enters main.
RaceBootstrap(i) ==
  /\ racers[i].pc = "loaded"
  /\ LET ys == racers[i].ys
         mainTopic == findTopic("main", topics)
         r == enterTopic(ys, globalTopic.name, GlobalCtxId, mainTopic,
                         "undefined", "nocb", TRUE, TRUE)
     IN racers' = [racers EXCEPT ![i].pc = "ready",
                                 ![i].ys = IF ys.virgin /\ mainTopic # UndefinedTopic
                                             THEN [ClearVirgin(ys) EXCEPT !.contexts = r.contexts]
                                           ELSE ClearVirgin(ys)]
  /\ UNCHANGED <<handlerVars, store, lastSaver>>

\* A hook handler of racer i enters a topic from the top of its stack.
RaceEnter(i, newTopic) ==
  /\ racers[i].pc = "ready" /\ racers[i].ops < MaxRaceOps
  /\ newTopic.isRoot \/ Len(racers[i].ys.contexts) < MaxDepth
  /\ LET ys == racers[i].ys
         r == enterTopic(ys, CallerTopic(ys),
                         IF ys.contexts = <<>> THEN GlobalCtxId ELSE Len(ys.contexts),
                         newTopic, "arg", "nocb", TRUE, TRUE)
     IN racers' = [racers EXCEPT ![i].ys.contexts = r.contexts,
                                 ![i].ops = racers[i].ops + 1]
  /\ UNCHANGED <<handlerVars, store, lastSaver>>

\* A hook handler of racer i exits the top of its stack.
RaceExit(i) ==
  /\ racers[i].pc = "ready" /\ racers[i].ops < MaxRaceOps
  /\ racers[i].ys.contexts # <<>>
  /\ LET ys == racers[i].ys
         r == exitTopic(ys, Len(ys.contexts), "res", Undefined, TRUE)
     IN racers' = [racers EXCEPT ![i].ys.contexts = r.contexts,
                                 ![i].ops = racers[i].ops + 1]
  /\ UNCHANGED <<handlerVars, store, lastSaver>>

\* Line 318 for racer i; a racer that has loaded and not yet saved is overtaken.
RaceSave(i) ==
  /\ racers[i].pc = "ready"
  /\ store' = libSessionSave(racers[i].ys)
  /\ lastSaver' = i
  /\ racers' = [j \in Racers |->
        IF j = i THEN [racers[j] EXCEPT !.pc = "done"]
        ELSE IF racers[j].pc \in {"loaded", "ready"}
          THEN [racers[j] EXCEPT !.overtaken = TRUE]
        ELSE racers[j]]
  /\ UNCHANGED handlerVars

\* The invocation of racer i has returned; the racer may call again.
RaceSettle(i) ==
  /\ racers[i].pc = "done"
  /\ racers' = [racers EXCEPT ![i] = IdleRacer(racers[i].runs)]
  /\ lastSaver' = IF lastSaver = i THEN 0 ELSE lastSaver
  /\ UNCHANGED <<handlerVars, store>>

RaceInit ==
  /\ Init
  /\ allTopics = <<MainTopic, GlobalTopic, SubTopic>>
  /\ strategy = "last"

RaceNext ==
  \/ \E i \in Racers : RaceLoad(i)
  \/ \E i \in Racers : RaceBootstrap(i)
  \/ \E i \in Racers, newTopic \in TopicSet : RaceEnter(i, newTopic)
  \/ \E i \in Racers : RaceExit(i)
  \/ \E i \in Racers : RaceSave(i)
  \/ \E i \in Racers : RaceSettle(i)

RaceSpec == RaceInit /\ [][RaceNext]_vars

-----------------------------------------------------------------------------
(* Claims about the context stack.  `call` holds the last enterTopic,     *)
(* exitTopic or setter call made in the running invocation, the stack it   *)
(* was made on (call.before) and its outcome; nothing else changes the     *)
(* stack before the next call.                                             *)

Stack == yakSession.contexts

\* The callbacks the last call invoked.
Invoked(ev) == \E i \in 1..Len(call.events) : call.events[i].ev = ev

\* The call was made from the top of the stack it found, or on an empty stack.
FromTop == call.before = <<>> \/ call.caller = Len(call.before)

EnterDone == call.op = "enterTopic" /\ call.status = "ok"

\* C1: an enterTopic of a non-root topic made from the top of the stack (or
\* on an empty stack) is not refused, and when init and afterInit succeed
\* the stack is the old stack, unchanged, with the newly built context (the
\* entered topic, empty activeHooks and disabledHooks) on top of it.
C1_EnterNonRootPushes ==
  (call.op = "enterTopic" /\ ~findTopic(call.topic, topics).isRoot) =>
     /\ FromTop => call.status # "discipline"
     /\ call.status = "ok" =>
          /\ Len(Stack) = Len(call.before) + 1
          /\ SubSeq(Stack, 1, Len(call.before)) = call.before
          /\ Last(Stack).topic = call.topic
          /\ Last(Stack).activeHooks = <<>>
          /\ Last(Stack).disabledHooks = <<>>

\* A non-root topic has been entered from the top of a non-empty stack.
C1_Witness ==
  /\ EnterDone /\ call.topic = "sub"
  /\ call.before # <<>> /\ call.caller = Len(call.before)

\* C2: a successful enterTopic of a root topic leaves a stack of exactly one
\* context, the newly built one, whatever the stack was before.
C2_EnterRootResets ==
  (EnterDone /\ findTopic(call.topic, topics).isRoot) =>
     /\ Len(Stack) = 1
     /\ Stack[1].topic = call.topic
     /\ Stack[1].activeHooks = <<>>
     /\ Stack[1].disabledHooks = <<>>

\* A root topic has been entered on a stack of two contexts.
C2_Witness ==
  /\ EnterDone /\ findTopic(call.topic, topics).isRoot
  /\ Len(call.before) = 2

\* C3: exitTopic called with the top context of a non-empty stack is not
\* refused and removes exactly the top: the stack is the old stack without
\* its last element, with or without a continuation on the exited context.
C3_ExitPopsTop ==
  (call.op = "exitTopic" /\ call.before # <<>> /\ call.caller = Len(call.before)) =>
     /\ call.status # "discipline"
     /\ Len(Stack) = Len(call.before) - 1
     /\ Stack = SubSeq(call.before, 1, Len(call.before) - 1)

\* The top of a stack of two has been exited, and it had a continuation.
C3_Witness ==
  /\ call.op = "exitTopic" /\ call.status = "ok"
  /\ Len(call.before) = 2 /\ call.caller = 2
  /\ Last(call.before).cb # "nocb"

\* C4 as claimed: enterTopic from a context that is not the current top (a
\* lower context, the global context under a non-empty stack, or a removed
\* context, also when the stack has become empty) is refused, init is not
\* invoked and the stack is left as it was.
C4_StaleEnterRefused ==
  (call.op = "enterTopic"
     /\ (call.caller = StaleCtx \/ (call.before # <<>> /\ call.caller # Len(call.before)))) =>
     /\ call.status = "discipline"
     /\ ~Invoked("init")
     /\ Stack = call.before

\* C4 as amended: the refusal holds on a non-empty stack; on an empty stack
\* enterTopic makes no check and is never refused, whoever calls.
C4_NonTopEnterRefused ==
  call.op = "enterTopic" =>
     /\ (call.before # <<>> /\ call.caller # Len(call.before)) =>
          /\ call.status = "discipline"
          /\ ~Invoked("init")
          /\ Stack = call.before
     /\ call.before = <<>> => call.status # "discipline"

\* enterTopic has been refused for a removed context on a non-empty stack.
C4_Witness ==
  /\ call.op = "enterTopic" /\ call.status = "discipline"
  /\ call.before # <<>> /\ call.caller = StaleCtx

\* C5: exitTopic from a context that is not the current top (a lower one, a
\* removed one, or any context when the stack is empty) is refused, no
\* continuation is invoked and the stack is left as it was.
C5_NonTopExitRefused ==
  (call.op = "exitTopic" /\ (call.before = <<>> \/ call.caller # Len(call.before))) =>
     /\ call.status = "discipline"
     /\ ~Invoked("cb")
     /\ Stack = call.before

\* exitTopic has been refused for the lower context of a stack of two whose
\* top has a continuation.
C5_Witness ==
  /\ call.op = "exitTopic" /\ call.status = "discipline"
  /\ Len(call.before) = 2 /\ call.caller = 1
  /\ Last(call.before).cb # "nocb"

-----------------------------------------------------------------------------
(* Claims about the hook dispatch.  `log` holds the parse and handler     *)
(* invocations of the running processMessage call, in order.               *)

LogHas(ev, ph) == \E i \in 1..Len(log) : log[i].ev = ev /\ log[i].ph = ph

NoGlobalEvent == \A i \in 1..Len(log) : log[i].ph # "global"

\* Some hook of the active context's topic matches the message.
LocalMatch ==
  /\ context # NoCtx
  /\ \E k \in 1..Len(currentTopic.hooks) : HookParse(currentTopic.hooks[k], message) # 0

\* C6: when a hook of the active context's topic matches the message, no
\* global hook is evaluated for that message: the global loop is reached only
\* when no local hook matches, and once a local handler has been invoked no
\* parse and no handler of a global hook is.
C6_LocalMatchShadowsGlobal ==
  /\ LogHas("handler", "local") => NoGlobalEvent
  /\ (pc = "hooks" /\ LocalMatch) => (phase = "local" /\ NoGlobalEvent)

\* A local handler runs for a message that the first global hook, eligible
\* for the context, matches too.
C6_Witness ==
  /\ pc = "handler" /\ phase = "local" /\ call = NoCall
  /\ globalTopic # UndefinedTopic
  /\ HookParse(globalTopic.hooks[1], message) # 0
  /\ Stack[context].activeHooks = <<>> /\ Stack[context].disabledHooks = <<>>

\* The eligibility rule as the specification words it.
RuleEligible(name) ==
  IF context = NoCtx THEN TRUE
  ELSE IF Stack[context].activeHooks # <<>>
         THEN Contains(Stack[context].activeHooks, name)
  ELSE IF Stack[context].disabledHooks # <<>>
         THEN ~Contains(Stack[context].disabledHooks, name)
  ELSE TRUE

\* The global hooks parsed so far, and the first n global hooks the rule admits.
GlobalParses == SelectSeq(log, LAMBDA e : e.ev = "parse" /\ e.ph = "global")
RuleAdmits(n) == SelectSeq(SubSeq(globalTopic.hooks, 1, n), LAMBDA h : RuleEligible(h.name))

SameHooks(events, hooks) ==
  /\ Len(events) = Len(hooks)
  /\ \A i \in 1..Len(events) : events[i].name = hooks[i].name

\* C7: in the global loop the hooks whose parse has been invoked are exactly
\* the hooks passed so far that the rule admits, in their order: an admitted
\* hook is run, a hook the rule does not admit is never parsed.
C7_GlobalHookRunIffEligible ==
  /\ (pc = "hooks" /\ phase = "global") => SameHooks(GlobalParses, RuleAdmits(hookIdx - 1))
  /\ (pc = "handler" /\ phase = "global" /\ call = NoCall) =>
        SameHooks(GlobalParses, RuleAdmits(hookIdx))

\* The active context has both lists set; hook a, named in both, has run.
C7_Witness ==
  /\ pc = "handler" /\ phase = "global" /\ call = NoCall
  /\ context # NoCtx
  /\ Stack[context].activeHooks = <<"a">> /\ Stack[context].disabledHooks = <<"a">>
  /\ Last(log).name = "a"

AfterProcessMessage == pc \in {"save", "select"}

\* C8 as claimed: when a hook matched, the result is the handler's value as
\* a sequence, whatever the value, and the empty sequence means no match.
C8_ResultAlwaysWrapped ==
  AfterProcessMessage =>
     /\ handled => results = Concat(handlerResult)
     /\ results = <<>> => ~handled

\* C8 as amended: a truthy single value yields the one-element sequence, an
\* array its own elements, and the empty sequence is returned when no hook
\* matched, when the handler result is falsy, or when it is an empty array.
C8_TruthyResultWrapped ==
  AfterProcessMessage =>
     /\ (handled /\ handlerResult.kind = "scalar" /\ handlerResult.s \notin FalsyScalars)
           => results = <<handlerResult.s>>
     /\ (handled /\ handlerResult.kind = "array") => results = handlerResult.a
     /\ (handled /\ handlerResult.kind = "scalar" /\ handlerResult.s \in FalsyScalars)
           => results = <<>>
     /\ ~handled => results = <<>>

\* A hook matched, its handler returned the number 0, nothing is returned.
C8_Witness ==
  /\ pc = "save" /\ handled
  /\ handlerResult = Scalar("0") /\ results = <<>>

\* C9 as claimed: an invocation in which no hook matches does not fail and
\* returns the empty sequence.  The only error the dispatch itself raises is
\* the TypeError of line 202, raised after every local hook has declined the
\* message, when no topic is named "global".
C9_NoMatchIsNoError ==
  /\ ~(pc = "failed" /\ error = "TypeError")
  /\ (AfterProcessMessage /\ ~handled) => results = <<>>

MainRegistered == findTopic("main", topics) # UndefinedTopic

\* C10: without a persisted session and with "main" registered, main has
\* been entered when the message is dispatched, so the message goes to
\* main's hooks; a completed invocation leaves a persisted session that is
\* not virgin, with one context if no hook ever entered or exited a topic;
\* and a persisted session is never bootstrapped again.
C10_BootstrapOnce ==
  /\ (pc = "hooks" /\ ~store.exists /\ MainRegistered /\ nOps = 0) =>
        /\ context = 1 /\ Len(Stack) = 1 /\ Stack[1].topic = "main"
        /\ \A i \in 1..Len(log) : log[i].ph = "local" =>
              \E k \in 1..Len(MainTopic.hooks) : MainTopic.hooks[k].name = log[i].name
  /\ (pc = "handler" /\ ~store.exists /\ MainRegistered /\ nOps = 0) =>
        log = <<Event("parse", "local", "greet", 1), Event("handler", "local", "greet", 1)>>
           \/ ~LogHas("handler", "local")
  /\ pc = "done" => (store.exists /\ ~store.virgin)
  /\ (pc = "done" /\ MainRegistered /\ nOps = 0) => Len(store.contexts) = 1
  /\ store.exists => ~store.virgin
  /\ (store.exists /\ pc # "idle") => ~yakSession.virgin
  /\ (pc \in {"select", "failed"} /\ call.op = "enterTopic") => ~store.exists

\* The first invocation has answered "hello" from main's hook.
C10_Witness ==
  /\ pc = "save" /\ ~store.exists /\ nOps = 0
  /\ handled /\ results = <<"hi">>
  /\ Len(Stack) = 1 /\ Stack[1].topic = "main"

-----------------------------------------------------------------------------
(* Claims about the handler invocation: load, strategy, save.              *)

Recognized == {"single", "merge", "first", "last", "custom"}

C12_UnknownStrategyFails ==
  strategy \notin Recognized =>
     /\ pc \notin {"hooks", "handler", "return", "save", "done"}
     /\ nProc = 0 /\ log = <<>>
     /\ saves = 0 /\ ~store.exists
     /\ pc = "failed" => error # ""

\* The switch has thrown for the unknown strategy, after main was entered.
C12_Witness ==
  /\ pc = "failed" /\ error = "unknown strategy"
  /\ strategy \notin Recognized
  /\ Stack # <<>>

UpTo(n) == [i \in 1..n |-> i]

-----------------------------------------------------------------------------
(* Claims about continuations, hook order, afterInit and the hook lists.    *)

CbEvents == SelectSeq(call.events, LAMBDA e : e.ev = "cb")

IsRootTopic(name) == findTopic(name, topics).isRoot

\* The new top after the exit, NoCtx when the stack has become empty.
NewTop == IF Stack = <<>> THEN NoCtx ELSE Len(Stack)

\* C14 as claimed: the continuation of every exited context, entered as a
\* root or as a non-root topic, is handed the context the topic was entered
\* from, which is the new top; it is given the caller's arguments and
\* exitTopic returns its result.  (The entering context is an object, never
\* `undefined`; it is below the exited context only when that was pushed
\* from the top of a non-empty stack.)
C14_ContinuationGetsEnteringContext ==
  (call.op = "exitTopic" /\ Invoked("cb")) =>
     /\ CbEvents[1].ctx # NoCtx
     /\ CbEvents[1].ctx = Len(call.before) - 1
     /\ Last(call.before).enteredFrom = "top"
     /\ CbEvents[1].ph = call.args
     /\ call.status = "ok" => call.ret = call.cbRet

\* C14 as amended: the continuation is handed the new top of the stack after
\* the pop, which is the entering context when the exited context was pushed
\* from the top of a non-empty stack, and nothing when the exited context was
\* the only one on the stack (entered as a root topic or on an empty stack);
\* it is given the caller's arguments and exitTopic returns its result; an
\* exit of a context without continuation returns nothing.
C14_ContinuationGetsNewTop ==
  (call.op = "exitTopic" /\ call.status # "discipline") =>
     /\ Invoked("cb") <=> Last(call.before).cb # "nocb"
     /\ Invoked("cb") =>
          /\ CbEvents[1].ctx = NewTop
          /\ CbEvents[1].name = Last(call.before).cb
          /\ CbEvents[1].ph = call.args
          /\ call.status = "ok" => call.ret = call.cbRet
          /\ (Len(call.before) > 1 /\ Last(call.before).enteredFrom = "top")
                => CbEvents[1].ctx = Len(call.before) - 1
          /\ Len(call.before) = 1 => CbEvents[1].ctx = NoCtx
     /\ ~Invoked("cb") => call.ret = Undefined

\* The continuation of the upper context of a stack of two has returned a
\* value, which exitTopic returned.
C14_Witness ==
  /\ call.op = "exitTopic" /\ call.status = "ok" /\ Invoked("cb")
  /\ Len(call.before) = 2 /\ CbEvents[1].ctx = 1
  /\ call.ret = Scalar("hi")

\* C15: a continuation is invoked only by the exitTopic call that pops its
\* context from the top of the stack, once, and the context is off the stack
\* from then on; no enterTopic (a root entry discarding contexts with
\* continuations included) and no call made from a context that has left
\* the stack invokes a continuation.
C15_ContinuationAtMostOnce ==
  /\ Invoked("cb") =>
        /\ call.op = "exitTopic"
        /\ call.status \in {"ok", "cbError"}
        /\ call.before # <<>> /\ call.caller = Len(call.before)
        /\ Len(CbEvents) = 1
        /\ Last(call.before).cb # "nocb"
        /\ CbEvents[1].name = Last(call.before).cb
        /\ Stack = SubSeq(call.before, 1, Len(call.before) - 1)
  /\ call.op \in {"enterTopic", "resumed"} => ~Invoked("cb")
  /\ call.caller = StaleCtx => ~Invoked("cb")

\* A root topic has been entered over a stack holding a context with a
\* continuation; no continuation has been invoked.
C15_Witness ==
  /\ EnterDone /\ IsRootTopic(call.topic)
  /\ \E i \in 1..Len(call.before) : call.before[i].cb # "nocb"
  /\ ~Invoked("cb") /\ Len(Stack) = 1

\* The hook of the registry with the name, and its place among the hooks of
\* its topic (hook names are distinct within a registry).
DeclaredAt(name) ==
  CHOOSE k \in 1..2 : \E i \in 1..Len(allTopics) :
     k <= Len(allTopics[i].hooks) /\ allTopics[i].hooks[k].name = name
HookNamed(name) ==
  LET t == CHOOSE i \in 1..Len(allTopics) : \E k \in 1..Len(allTopics[i].hooks) :
                 allTopics[i].hooks[k].name = name
  IN allTopics[t].hooks[DeclaredAt(name)]

\* C16: in the log of one processMessage call the hooks of a phase are
\* parsed in declared order, each at most once, a parse is followed by
\* another parse only if it returned undefined, a handler directly follows
\* the parse of its hook, nothing follows a handler (so at most one handler
\* is invoked), and no local event follows a global one.
C16_HooksInOrderOneAtATime ==
  \A i \in 1..Len(log) :
     /\ log[i].ev = "handler" =>
          /\ i = Len(log) /\ i > 1
          /\ log[i-1].ev = "parse" /\ log[i-1].name = log[i].name
          /\ log[i-1].ph = log[i].ph
          /\ HookParse(HookNamed(log[i].name), message) # 0
     /\ (log[i].ev = "parse" /\ i < Len(log) /\ log[i+1].ev = "parse") =>
          /\ HookParse(HookNamed(log[i].name), message) = 0
          /\ log[i].ph = "global" => log[i+1].ph = "global"
          /\ log[i].ph = log[i+1].ph => DeclaredAt(log[i].name) < DeclaredAt(log[i+1].name)

\* Both hooks of the active topic, then both global hooks, have been parsed
\* and have declined the message.
C16_Witness ==
  /\ pc = "hooks" /\ phase = "global" /\ Len(log) = 4
  /\ log[1].ph = "local" /\ log[2].ph = "local"
  /\ log[3].ph = "global" /\ log[4].ph = "global"

\* The stack holds the context the call has installed.
Installed ==
  /\ Stack # <<>> /\ Last(Stack).topic = call.topic
  /\ IF IsRootTopic(call.topic) THEN Len(Stack) = 1
     ELSE Len(Stack) = Len(call.before) + 1
            /\ SubSeq(Stack, 1, Len(call.before)) = call.before

\* C17: afterInit is invoked after init, once the new context is on the
\* stack, with that context (the new top); when afterInit throws, enterTopic
\* fails with its error and the new context stays installed.
C17_AfterInitAfterInstall ==
  call.op \in {"enterTopic", "resumed"} =>
     /\ Invoked("afterInit") =>
          /\ call.status \in {"ok", "afterInitError"}
          /\ call.events = <<Event("init", "", call.topic, NoCtx),
                             Event("afterInit", "", call.topic, Len(Stack))>>
          /\ Installed
     /\ call.status = "afterInitError" => (Invoked("afterInit") /\ Installed)
     /\ (call.status = "ok" /\ findTopic(call.topic, topics).afterInit)
           => Invoked("afterInit")

\* afterInit of a topic pushed on a stack of one has thrown: the stack has
\* two contexts.
C17_Witness ==
  /\ call.op = "enterTopic" /\ call.status = "afterInitError"
  /\ Len(call.before) = 1 /\ Len(Stack) = 2

Lists(c) == <<c.activeHooks, c.disabledHooks>>

\* The step leaves the hook lists of every context that stays on the stack
\* as they are, but for the one list a setter call has just set and for a
\* root entry, which puts a new context at the bottom.
ListsKept ==
  \A i \in 1..Len(Stack) :
     (i <= Len(Stack') /\ Lists(Stack'[i]) # Lists(Stack[i])) =>
        \/ /\ call'.op = "disableHooksExcept" /\ call'.caller = i
           /\ Stack'[i].disabledHooks = Stack[i].disabledHooks
        \/ /\ call'.op = "disableHooks" /\ call'.caller = i
           /\ Stack'[i].activeHooks = Stack[i].activeHooks
        \/ /\ call'.op \in {"enterTopic", "resumed"} /\ IsRootTopic(call'.topic)
           /\ i = 1 /\ Len(Stack') = 1

\* C18: a context is created with empty lists whatever the lists of the
\* contexts below it; a setter changes one list of one context and nothing
\* else; and no other step of the handler (processMessage calls, entering
\* and exiting topics above) changes a list of a context on the stack.
C18_HookListsScoped ==
  /\ [](/\ (call.op \in {"enterTopic", "resumed"} /\ call.status \in {"ok", "afterInitError"})
             => Lists(Last(Stack)) = <<<<>>, <<>>>>
        /\ call.op \in {"disableHooksExcept", "disableHooks"} =>
             /\ Len(Stack) = Len(call.before)
             /\ \A i \in 1..Len(Stack) :
                   IF i = call.caller
                     THEN \E l \in HookLists :
                            Stack[i] = [call.before[i] EXCEPT
                               ![IF call.op = "disableHooks" THEN "disabledHooks"
                                 ELSE "activeHooks"] = l]
                     ELSE Stack[i] = call.before[i])
  /\ [][ListsKept]_vars

\* A list set on the first context is in force in a later processMessage
\* call of the invocation.
C18_Witness ==
  /\ pc = "hooks" /\ nProc = 2
  /\ Len(Stack) >= 1 /\ Stack[1].activeHooks = <<"a">>

\* C20 as claimed: a context is installed while the context enterTopic was
\* called from is still the top of the stack, or on an empty stack, so every
\* context above the bottom was entered from the context directly below it.
C20_EnteredFromBelow ==
  /\ \A i \in 2..Len(Stack) : Stack[i].enteredFrom = "top"
  /\ (call.op = "resumed" /\ call.status \in {"ok", "afterInitError"}) =>
        (call.before = <<>> \/ call.caller = Len(call.before))

-----------------------------------------------------------------------------
(* Claim about invocations that overlap (RaceSpec).                         *)

\* C19: nothing serializes invocations.  The persisted session is the one
\* the last save wrote, whatever another invocation saved in between; an
\* invocation that no save has overtaken since its load holds the persisted
\* session as loaded, so invocations that do not overlap each start from
\* what the previous one saved; and an invocation loads what is persisted
\* at that moment, also while another one is between its load and its save.
C19_LastSaveWins ==
  /\ (lastSaver # 0) =>
        /\ racers[lastSaver].pc = "done"
        /\ store.exists
        /\ store.contexts = racers[lastSaver].ys.contexts
        /\ store.virgin = racers[lastSaver].ys.virgin
  /\ \A i \in Racers :
        /\ (racers[i].pc \in {"loaded", "ready"} /\ ~racers[i].overtaken)
              => racers[i].loaded = store
        /\ (racers[i].pc = "loaded" /\ racers[i].loaded.exists) =>
              /\ racers[i].ys.contexts = racers[i].loaded.contexts
              /\ racers[i].ys.virgin = racers[i].loaded.virgin
        /\ (racers[i].pc = "loaded" /\ ~racers[i].loaded.exists) =>
              (racers[i].ys.contexts = <<>> /\ racers[i].ys.virgin)

\* Both racers loaded the same persisted session; racer 1 pushed a topic and
\* saved, racer 2 saved after it: the persisted stack is racer 2's and the
\* push of racer 1 is lost.
C19_Witness ==
  /\ racers[1].pc = "done" /\ racers[2].pc = "done" /\ lastSaver = 2
  /\ racers[2].overtaken
  /\ racers[1].loaded = racers[2].loaded /\ racers[1].loaded.exists
  /\ Len(racers[1].ys.contexts) = Len(racers[1].loaded.contexts) + 1
  /\ store.contexts = racers[2].ys.contexts
  /\ store.contexts # racers[1].ys.contexts

====
